---- MODULE Spec2Model ----
(***************************************************************************)
(* A model of the windowing code of the vscroxy workbench:                 *)
(*   - Layout (src/vs/workbench/browser/layout.ts): part visibility and    *)
(*     panel maximisation, and the middle section of the grid descriptor;  *)
(*   - BaseWindow.enableMultiWindowAwareTimeout (workbench/browser/        *)
(*     window.ts): the patched setTimeout / clearTimeout;                  *)
(*   - ProxyWindow (platform/windows/electron-main/windowImpl.ts): the     *)
(*     ready state, ready(), setReady(), load(), sendWhenReady();          *)
(*   - WindowsMainService: the registry of open windows;                   *)
(*   - massageMessageBoxOptions (platform/dialogs/common/dialogs.ts);      *)
(*   - WindowStateValidator.validateWindowState.                           *)
(* Each part has its own variables and its own specification; the          *)
(* variables of the other parts stay at their initial values.              *)
(***************************************************************************)
EXTENDS Integers, Sequences, FiniteSets, TLC

VARIABLES
    layout,         \* Layout: the LayoutStateModel runtime values and the grid
    c1Scope,        \* history: the grid exists and since then only toggleMaximizedPanel and
                    \* setPartHidden for the editor, the panel or the side bar were called
    lastCall,       \* history: the last Layout call and its arguments
    domWindows,     \* dom.getWindows(): the open windows (1 is the main window)
    hiddenWindows,  \* the windows whose document.visibilityState is 'hidden'
    TIMEOUT_HANDLES,     \* BaseWindow.TIMEOUT_HANDLES, counted from 0
    timers,         \* per handle: the native timers, didClear flags, the handler's calls
    readyState,     \* ProxyWindow.readyState
    winAlive,       \* ProxyWindow._win is set and not destroyed
    whenReadyCallbacks, \* ProxyWindow.whenReadyCallbacks: the promises whose resolve is queued
    promises,       \* the promises ready() returned
    messages,       \* the messages given to sendWhenReady / sendToOpeningWindow
    microtasks,     \* the promise reactions queued to run after the current job
    setReadyTick,   \* history: flips with every setReady()
    windows,        \* WindowsMainService.windows: Map<number, IProxyWindow>
    createdWindows, \* per window id: the ProxyWindow and the listeners the service holds
    focusOrder,     \* the windows by lastFocusTime, the latest last
    didClose,       \* history: the windows whose onDidClose has fired
    didDestroy,     \* history: the windows whose onDidDestroy has fired
    lastOpen,       \* history: the last call was openEmptyWindow, its option and its effect
    dialogOptions,  \* the MessageBoxOptions given to massageMessageBoxOptions, and the OS
    dialogResult,   \* what massageMessageBoxOptions returned
    windowState,    \* the IWindowState given to validateWindowState
    display,        \* the single display: its workArea and bounds
    validated,      \* what validateWindowState returned
    gridState,      \* what createGridDescriptor reads: container size, part sizes, state keys
    gridDescriptor  \* the middle section createGridDescriptor built

layoutVars == <<layout, c1Scope, lastCall>>
timeoutVars == <<domWindows, hiddenWindows, TIMEOUT_HANDLES, timers>>

proxyVars == <<readyState, winAlive, whenReadyCallbacks, promises, messages, microtasks,
               setReadyTick>>

serviceVars == <<windows, createdWindows, focusOrder, didClose, didDestroy, lastOpen>>

dialogVars == <<dialogOptions, dialogResult>>

validatorVars == <<windowState, display, validated>>

gridVars == <<gridState, gridDescriptor>>

vars == <<layoutVars, timeoutVars, proxyVars, serviceVars, dialogVars, validatorVars,
          gridVars>>

\* the variables each part leaves alone
notLayout ==
    <<timeoutVars, proxyVars, serviceVars, dialogVars, validatorVars, gridVars>>
notTimeout ==
    <<layoutVars, proxyVars, serviceVars, dialogVars, validatorVars, gridVars>>
notProxy ==
    <<layoutVars, timeoutVars, serviceVars, dialogVars, validatorVars, gridVars>>
notService ==
    <<layoutVars, timeoutVars, proxyVars, dialogVars, validatorVars, gridVars>>
notDialog ==
    <<layoutVars, timeoutVars, proxyVars, serviceVars, validatorVars, gridVars>>
notGrid == <<layoutVars, timeoutVars, proxyVars, serviceVars, dialogVars, validatorVars>>
notValidator ==
    <<layoutVars, timeoutVars, proxyVars, serviceVars, dialogVars, gridVars>>

(***************************************************************************)
(* Layout                                                                  *)
(***************************************************************************)

\* Position (layoutService): LEFT, RIGHT, BOTTOM, TOP
Positions == {"LEFT", "RIGHT", "BOTTOM", "TOP"}

\* PanelAlignment
PanelAlignments == {"left", "center", "right", "justify"}

\* workbench.panel.opensMaximized, as read through panelOpensMaximizedFromString
PanelOpensMaximizedOptions == {"ALWAYS", "NEVER", "REMEMBER_LAST"}

\* the parts setPartHidden switches over
HideableParts ==
    {"ACTIVITYBAR_PART", "SIDEBAR_PART", "EDITOR_PART", "BANNER_PART",
     "AUXILIARYBAR_PART", "PANEL_PART"}

isHorizontal(position) == position \in {"BOTTOM", "TOP"}

\* LayoutStateKeys defaults, with the stored position / alignment / wasLastMaximized
LayoutDefaults(pos, align, wasMax) ==
    [ workbenchGrid       |-> FALSE,
      ACTIVITYBAR_HIDDEN  |-> FALSE,
      SIDEBAR_HIDDEN      |-> FALSE,
      EDITOR_HIDDEN       |-> FALSE,
      PANEL_HIDDEN        |-> TRUE,
      AUXILIARYBAR_HIDDEN |-> TRUE,
      PANEL_WAS_LAST_MAXIMIZED |-> wasMax,
      PANEL_POSITION      |-> pos,
      PANEL_ALIGNMENT     |-> align,
      editorViewVisible   |-> FALSE,
      panelViewVisible    |-> FALSE,
      sideBarViewVisible  |-> FALSE ]

isVisible(s, part) ==
    CASE part = "SIDEBAR_PART"      -> ~s.SIDEBAR_HIDDEN
      [] part = "PANEL_PART"        -> ~s.PANEL_HIDDEN
      [] part = "AUXILIARYBAR_PART" -> ~s.AUXILIARYBAR_HIDDEN
      [] part = "ACTIVITYBAR_PART"  -> ~s.ACTIVITYBAR_HIDDEN
      [] part = "EDITOR_PART"       -> ~s.EDITOR_HIDDEN
      [] OTHER                      -> FALSE

isPanelMaximized(s) ==
    /\ (s.PANEL_ALIGNMENT = "center" \/ ~isHorizontal(s.PANEL_POSITION))
    /\ ~isVisible(s, "EDITOR_PART")

panelOpensMaximized(s, setting) ==
    IF s.PANEL_ALIGNMENT # "center" /\ isHorizontal(s.PANEL_POSITION)
    THEN FALSE
    ELSE \/ setting = "ALWAYS"
         \/ (setting = "REMEMBER_LAST" /\ s.PANEL_WAS_LAST_MAXIMIZED)

RECURSIVE setEditorHidden(_, _, _)
RECURSIVE setPanelHidden(_, _, _, _)
RECURSIVE toggleMaximizedPanel(_, _)

\* setEditorHidden on a layout whose grid exists
setEditorHidden(s, hidden, setting) ==
    LET s1 == [s EXCEPT !.EDITOR_HIDDEN = hidden, !.editorViewVisible = ~hidden]
    IN  IF hidden /\ ~isVisible(s1, "PANEL_PART")
        THEN setPanelHidden(s1, FALSE, TRUE, setting)
        ELSE s1

setPanelHidden(s, hidden, skipLayout, setting) ==
    IF ~s.workbenchGrid THEN s
    ELSE
    LET wasHidden == ~isVisible(s, "PANEL_PART")
        s1 == [s EXCEPT !.PANEL_HIDDEN = hidden]
        isMax == isPanelMaximized(s1)
        opensMax == panelOpensMaximized(s1, setting)
        s2 == IF hidden /\ isMax THEN toggleMaximizedPanel(s1, setting) ELSE s1
    IN  IF wasHidden = hidden THEN s2
        ELSE LET s3 == [s2 EXCEPT !.panelViewVisible = ~hidden]
             IN  IF ~hidden
                 THEN IF ~skipLayout /\ isMax # opensMax
                      THEN toggleMaximizedPanel(s3, setting)
                      ELSE s3
                 ELSE [s3 EXCEPT !.PANEL_WAS_LAST_MAXIMIZED = isMax]

toggleMaximizedPanel(s, setting) ==
    LET isMaximized == isPanelMaximized(s)
        s1 == IF ~isMaximized
              THEN setEditorHidden(s, TRUE, setting)
              ELSE setEditorHidden(s, FALSE, setting)
    IN  [s1 EXCEPT !.PANEL_WAS_LAST_MAXIMIZED = ~isMaximized]

\* setSideBarHidden: with an active viewlet, hiding reaches focusPanelOrEditor,
\* whose hasFocus() throws before the grid is told
setSideBarHidden(s, hidden, activeViewlet) ==
    LET s1 == [s EXCEPT !.SIDEBAR_HIDDEN = hidden]
    IN  IF (hidden /\ activeViewlet) \/ ~s.workbenchGrid
        THEN s1
        ELSE [s1 EXCEPT !.sideBarViewVisible = ~hidden]

\* the switch of setPartHidden, with its fall-through cases
setPartHidden(s, hidden, part, setting, activeViewlet) ==
    CASE part \in {"ACTIVITYBAR_PART", "SIDEBAR_PART"} ->
            setSideBarHidden(s, hidden, activeViewlet)
      [] part = "EDITOR_PART" ->
            IF s.workbenchGrid
            THEN setEditorHidden(s, hidden, setting)
            ELSE [s EXCEPT !.EDITOR_HIDDEN = hidden]
      [] part \in {"BANNER_PART", "AUXILIARYBAR_PART", "PANEL_PART"} ->
            setPanelHidden(s, hidden, FALSE, setting)
      [] OTHER -> s

LayoutInit ==
    /\ layout \in { LayoutDefaults(p, a, m) :
                      p \in Positions, a \in PanelAlignments, m \in BOOLEAN }
    /\ c1Scope = FALSE
    /\ lastCall = [op |-> "none", part |-> "none", hidden |-> FALSE]

\* createWorkbenchLayout: the grid is deserialized from createGridDescriptor
CreateWorkbenchLayout ==
    /\ ~layout.workbenchGrid
    /\ layout' = [layout EXCEPT !.workbenchGrid = TRUE,
                                !.editorViewVisible = ~layout.EDITOR_HIDDEN,
                                !.panelViewVisible = ~layout.PANEL_HIDDEN,
                                !.sideBarViewVisible = ~layout.SIDEBAR_HIDDEN]
    /\ c1Scope' = ~(layout.EDITOR_HIDDEN /\ layout.PANEL_HIDDEN)
    /\ lastCall' = [op |-> "createWorkbenchLayout", part |-> "none", hidden |-> FALSE]
    /\ UNCHANGED notLayout

SetPartHidden ==
    \E hidden \in BOOLEAN, part \in HideableParts,
       setting \in PanelOpensMaximizedOptions, activeViewlet \in BOOLEAN :
        /\ layout' = setPartHidden(layout, hidden, part, setting, activeViewlet)
        /\ lastCall' = [op |-> "setPartHidden", part |-> part, hidden |-> hidden]
        /\ c1Scope' = (c1Scope /\ part \in {"EDITOR_PART", "PANEL_PART", "SIDEBAR_PART"})
        /\ UNCHANGED notLayout

\* toggleMaximizedPanel reads the grid first: without a grid it throws
ToggleMaximizedPanel ==
    \E setting \in PanelOpensMaximizedOptions :
        /\ layout.workbenchGrid
        /\ layout' = toggleMaximizedPanel(layout, setting)
        /\ lastCall' = [op |-> "toggleMaximizedPanel", part |-> "none", hidden |-> FALSE]
        /\ UNCHANGED <<c1Scope, notLayout>>

\* the part.onDidVisibilityChange listeners createWorkbenchLayout registers
OnDidVisibilityChange ==
    \E visible \in BOOLEAN, part \in {"PANEL_PART", "EDITOR_PART"},
       setting \in PanelOpensMaximizedOptions :
        /\ layout.workbenchGrid
        /\ layout' = IF part = "PANEL_PART"
                     THEN setPanelHidden(layout, ~visible, TRUE, setting)
                     ELSE setEditorHidden(layout, ~visible, setting)
        /\ lastCall' = [op |-> "onDidVisibilityChange", part |-> part, hidden |-> ~visible]
        /\ c1Scope' = FALSE
        /\ UNCHANGED notLayout

\* LayoutStateModel.load's storage listener: a PROFILE / USER runtime key
\* (panel.alignment) follows the stored value
OnDidChangeStorageValue ==
    \E a \in PanelAlignments :
        /\ a # layout.PANEL_ALIGNMENT
        /\ layout' = [layout EXCEPT !.PANEL_ALIGNMENT = a]
        /\ lastCall' = [op |-> "onDidChangeValue", part |-> "none", hidden |-> FALSE]
        /\ c1Scope' = FALSE
        /\ UNCHANGED notLayout

LayoutNext ==
    \/ CreateWorkbenchLayout
    \/ SetPartHidden
    \/ ToggleMaximizedPanel
    \/ OnDidVisibilityChange
    \/ OnDidChangeStorageValue

LayoutIdle ==
    /\ layout = LayoutDefaults("BOTTOM", "center", FALSE)
    /\ c1Scope = FALSE
    /\ lastCall = [op |-> "none", part |-> "none", hidden |-> FALSE]

(***************************************************************************)
(* BaseWindow.enableMultiWindowAwareTimeout                                *)
(***************************************************************************)

MaxTimeouts == 1
MaxAuxWindows == 1

mainWindow == 1
Wins == 1 .. (1 + MaxAuxWindows)
Handles == 1 .. MaxTimeouts

isAuxiliaryWindow(w) == w # mainWindow

\* a handle not handed out yet
UnusedTimer ==
    [ kind        |-> "unused",                \* "multi": a TIMEOUT_HANDLES handle; "native": the window's own
      native      |-> [w \in Wins |-> "none"], \* the native timer of each window: none / armed / fired / dead
      didClear    |-> [w \in Wins |-> FALSE],
      registered  |-> FALSE,                   \* TIMEOUT_DISPOSABLES has the handle
      disposables |-> {},                      \* timeoutDisposables: the windows whose disposable it holds
      didCall     |-> FALSE,                   \* the single-call function's flag
      invoked     |-> 0,                       \* calls of the handler
      cleared     |-> FALSE,                   \* history: the patched clearTimeout was called with the handle
      lateFire    |-> FALSE ]                  \* history: a native timer fired after that

\* BaseWindow.TIMEOUT_DISPOSABLES
TimeoutDisposablesMap ==
    [h \in {k \in 1 .. MaxTimeouts : timers[k].registered} |-> timers[h].disposables]

\* vscodeOriginalClearTimeout(handle) in window w: the browser cancels an armed
\* timer, or (w in stuck) fails to
originalClearTimeout(t, w, stuck) ==
    [t EXCEPT !.native[w] = IF @ = "armed" /\ w \notin stuck THEN "dead" ELSE @]

\* the timeoutDisposable of window w
timeoutDisposable(t, w, stuck) ==
    [originalClearTimeout([t EXCEPT !.didClear[w] = TRUE], w, stuck)
        EXCEPT !.disposables = @ \ {w}]

RECURSIVE dispose(_, _, _)
\* dispose(iterable): every disposable of the set is disposed
dispose(t, ws, stuck) ==
    IF ws = {} THEN t
    ELSE LET w == CHOOSE x \in ws : TRUE
         IN  dispose(timeoutDisposable(t, w, stuck), ws \ {w}, stuck)

\* the handler given to setTimeout runs
handler(t) == [t EXCEPT !.invoked = @ + 1]

\* the callback given to createSingleCallFunction
fnDidRunCallback(t, stuck) ==
    [dispose(t, t.disposables, stuck) EXCEPT !.registered = FALSE]

\* createSingleCallFunction(fn, fnDidRunCallback): fn runs on the first call
\* only, and the callback right after it
createSingleCallFunction(t, stuck) ==
    IF t.didCall THEN t
    ELSE fnDidRunCallback(handler([t EXCEPT !.didCall = TRUE]), stuck)

handlerFnUnwrapped(t, stuck) == handler(t)
\* handlerFn: the handler wrapped by createSingleCallFunction
handlerFn(t, stuck) == createSingleCallFunction(t, stuck)

timeoutCallbackIgnoringDidClear(t, w, stuck) == handlerFn(t, stuck)
\* the function armed in window w
timeoutCallback(t, w, stuck) ==
    IF t.didClear[w] THEN t ELSE handlerFn(t, stuck)

\* the patched clearTimeout
clearTimeout(t, stuck) ==
    IF t.registered
    THEN [dispose(t, t.disposables, stuck) EXCEPT !.registered = FALSE]
    ELSE IF t.kind = "native"
         THEN [t EXCEPT !.native = [w \in Wins |->
                    IF t.native[w] = "armed" /\ w \notin stuck THEN "dead" ELSE t.native[w]]]
         ELSE t

\* the windows a multi-window timeout is armed in
eligibleWindows ==
    { w \in domWindows : ~(isAuxiliaryWindow(w) /\ w \in hiddenWindows) }

TimeoutIdle ==
    /\ domWindows = {mainWindow}
    /\ hiddenWindows = {}
    /\ TIMEOUT_HANDLES = 0
    /\ timers = [h \in Handles |-> UnusedTimer]

TimeoutInit == TimeoutIdle

\* an auxiliary window opens
OpenAuxWindow ==
    \E w \in Wins \ domWindows :
        /\ domWindows' = domWindows \cup {w}
        /\ UNCHANGED <<hiddenWindows, TIMEOUT_HANDLES, timers, notTimeout>>

\* an auxiliary window is minimized or restored
ChangeVisibility ==
    \E w \in domWindows \ {mainWindow} :
        /\ hiddenWindows' = IF w \in hiddenWindows THEN hiddenWindows \ {w}
                            ELSE hiddenWindows \cup {w}
        /\ UNCHANGED <<domWindows, TIMEOUT_HANDLES, timers, notTimeout>>

\* an auxiliary window closes: its disposables, the timeoutDisposables added
\* to them included, are disposed and its native timers are gone
CloseAuxWindow ==
    \E w \in domWindows \ {mainWindow} :
        /\ domWindows' = domWindows \ {w}
        /\ hiddenWindows' = hiddenWindows \ {w}
        /\ timers' = [h \in Handles |->
                        IF timers[h].native[w] = "none" THEN timers[h]
                        ELSE IF timers[h].kind = "multi"
                             THEN timeoutDisposable(timers[h], w, {})
                             ELSE originalClearTimeout(timers[h], w, {})]
        /\ UNCHANGED <<TIMEOUT_HANDLES, notTimeout>>

\* targetWindow.setTimeout(handler, timeout)
SetTimeout ==
    \E target \in domWindows, handlerIsString \in BOOLEAN, timeout \in {0, 1} :
        /\ TIMEOUT_HANDLES < MaxTimeouts
        /\ LET h == TIMEOUT_HANDLES + 1 IN
           IF Cardinality(domWindows) = 1 \/ handlerIsString \/ timeout = 0
           THEN timers' = [timers EXCEPT ![h] =
                            [UnusedTimer EXCEPT !.kind = "native",
                                                !.native[target] = "armed"]]
           ELSE timers' = [timers EXCEPT ![h] =
                            [UnusedTimer EXCEPT
                                !.kind = "multi",
                                !.registered = TRUE,
                                !.disposables = eligibleWindows,
                                !.native = [w \in Wins |->
                                    IF w \in eligibleWindows THEN "armed" ELSE "none"]]]
        /\ TIMEOUT_HANDLES' = TIMEOUT_HANDLES + 1
        /\ UNCHANGED <<domWindows, hiddenWindows, notTimeout>>

\* a native timer of window w comes due
NativeTimerFires ==
    \E h \in Handles, w \in Wins, stuck \in SUBSET Wins :
        /\ timers[h].native[w] = "armed"
        /\ LET t == [timers[h] EXCEPT !.native[w] = "fired",
                                      !.lateFire = @ \/ timers[h].cleared]
           IN  timers' = [timers EXCEPT ![h] =
                            IF t.kind = "native" THEN handler(t)
                            ELSE timeoutCallback(t, w, stuck)]
        /\ UNCHANGED <<domWindows, hiddenWindows, TIMEOUT_HANDLES, notTimeout>>

\* targetWindow.clearTimeout(timeoutHandle)
ClearTimeout ==
    \E h \in Handles, stuck \in SUBSET Wins :
        /\ timers[h].kind # "unused"
        /\ timers' = [timers EXCEPT ![h] =
                        [clearTimeout(timers[h], stuck) EXCEPT !.cleared = TRUE]]
        /\ UNCHANGED <<domWindows, hiddenWindows, TIMEOUT_HANDLES, notTimeout>>

TimeoutNext ==
    \/ OpenAuxWindow
    \/ ChangeVisibility
    \/ CloseAuxWindow
    \/ SetTimeout
    \/ NativeTimerFires
    \/ ClearTimeout

(***************************************************************************)
(* ProxyWindow: readyState, ready(), setReady(), load(), sendWhenReady()   *)
(***************************************************************************)

MaxPromises == 2
MaxMessages == 2

PromiseIds == 1 .. MaxPromises
MessageIds == 1 .. MaxMessages

\* ReadyState
ReadyStates == {"NONE", "NAVIGATING", "READY"}

NoPromise ==
    [ state        |-> "unused",   \* unused / pending / resolved
      resolveCalls |-> 0,          \* how often its resolve function was called
      queued       |-> FALSE,      \* history: ready() was called while not READY
      reaction     |-> 0 ]         \* the message its then() callback sends, 0 for none

NoMessage ==
    [ state   |-> "unused",        \* unused / opening / waiting / sent / dropped
      token   |-> "None",          \* CancellationToken.None, or live / cancelled
      sentIn  |-> "NONE",          \* history: readyState when webContents.send was reached
      cancelledBeforeReady |-> FALSE ]  \* history: the token was cancelled while it waited

isReadyWhenLoaded(rs) == rs # "NONE"
\* get isReady()
isReady(rs) == rs = "READY"

freePromises == { p \in PromiseIds : promises[p].state = "unused" }
freeMessages == { m \in MessageIds : messages[m].state = "unused" }

\* send(): the message reaches webContents.send unless the window is gone
send(msgs, m, rs, alive) ==
    IF alive
    THEN [msgs EXCEPT ![m].state = "sent", ![m].sentIn = rs]
    ELSE [msgs EXCEPT ![m].state = "dropped"]

RECURSIVE sendAll(_, _, _, _)
sendAll(msgs, ms, rs, alive) ==
    IF ms = {} THEN msgs
    ELSE LET m == CHOOSE x \in ms : TRUE
         IN  sendAll(send(msgs, m, rs, alive), ms \ {m}, rs, alive)

RECURSIVE Reverse(_)
Reverse(q) == IF q = << >> THEN << >> ELSE Reverse(Tail(q)) \o <<Head(q)>>

popOne(cbs) == IF cbs = << >> THEN << >> ELSE <<cbs[Len(cbs)]>>
\* setReady's loop: while (whenReadyCallbacks.length) whenReadyCallbacks.pop()(this):
\* the callbacks it calls, in the order it calls them
popAll(cbs) == Reverse(cbs)

\* the sendWhenReady then() callback of message m
sendWhenReadyReaction(msgs, m, rs, alive) ==
    IF msgs[m].token # "cancelled" THEN send(msgs, m, rs, alive)
    ELSE [msgs EXCEPT ![m].state = "dropped"]

ProxyIdle ==
    /\ readyState = "NONE"
    /\ winAlive = TRUE
    /\ whenReadyCallbacks = << >>
    /\ promises = [p \in PromiseIds |-> NoPromise]
    /\ messages = [m \in MessageIds |-> NoMessage]
    /\ microtasks = << >>
    /\ setReadyTick = FALSE

ProxyInit == ProxyIdle

\* load(): "Indicate we are navigating now"
Load ==
    /\ microtasks = << >>
    /\ winAlive
    /\ readyState' = "NAVIGATING"
    /\ UNCHANGED <<winAlive, whenReadyCallbacks, promises, messages, microtasks,
                   setReadyTick, notProxy>>

\* ready(), called by someone who only waits
Ready ==
    \E p \in freePromises :
        /\ microtasks = << >>
        /\ p = CHOOSE x \in freePromises : \A y \in freePromises : x <= y
        /\ IF isReady(readyState)
           THEN /\ promises' = [promises EXCEPT ![p].state = "resolved",
                                                ![p].resolveCalls = 1]
                /\ UNCHANGED whenReadyCallbacks
           ELSE /\ promises' = [promises EXCEPT ![p].state = "pending",
                                                ![p].queued = TRUE]
                /\ whenReadyCallbacks' = Append(whenReadyCallbacks, p)
        /\ UNCHANGED <<readyState, winAlive, messages, microtasks, setReadyTick, notProxy>>

\* sendWhenReady(channel, token, ...args)
SendWhenReady ==
    \E m \in freeMessages, token \in {"None", "live"} :
        /\ microtasks = << >>
        /\ m = CHOOSE x \in freeMessages : \A y \in freeMessages : x <= y
        /\ IF isReady(readyState)
           THEN /\ messages' = send([messages EXCEPT ![m].token = token], m,
                                    readyState, winAlive)
                /\ UNCHANGED <<promises, whenReadyCallbacks>>
           ELSE /\ freePromises # {}
                /\ LET p == CHOOSE x \in freePromises : \A y \in freePromises : x <= y
                   IN  /\ promises' = [promises EXCEPT ![p].state = "pending",
                                                       ![p].queued = TRUE,
                                                       ![p].reaction = m]
                       /\ whenReadyCallbacks' = Append(whenReadyCallbacks, p)
                /\ messages' = [messages EXCEPT ![m].state = "waiting",
                                                ![m].token = token]
        /\ UNCHANGED <<readyState, winAlive, microtasks, setReadyTick, notProxy>>

\* WindowsMainService.sendToOpeningWindow: a once-listener of onDidSignalReadyWindow
SendToOpeningWindow ==
    \E m \in freeMessages :
        /\ microtasks = << >>
        /\ m = CHOOSE x \in freeMessages : \A y \in freeMessages : x <= y
        /\ messages' = [messages EXCEPT ![m].state = "opening"]
        /\ UNCHANGED <<readyState, winAlive, whenReadyCallbacks, promises, microtasks,
                       setReadyTick, notProxy>>

\* the owner of a token cancels it
CancelToken ==
    \E m \in MessageIds :
        /\ microtasks = << >>
        /\ messages[m].token = "live"
        /\ messages' = [messages EXCEPT
                          ![m].token = "cancelled",
                          ![m].cancelledBeforeReady = (messages[m].state = "waiting")]
        /\ UNCHANGED <<readyState, winAlive, whenReadyCallbacks, promises, microtasks,
                       setReadyTick, notProxy>>

\* NativeHostMainService.notifyReady -> setReady(): the window reported ready.
\* Every popped resolve function is called, the reactions of the promises it
\* settles are queued as microtasks in that order, then onDidSignalReady fires
\* and the sendToOpeningWindow listeners send.
SetReady ==
    /\ microtasks = << >>
    /\ winAlive
    /\ readyState # "NONE"
    /\ readyState' = "READY"
    /\ LET called == popAll(whenReadyCallbacks)
           calledSet == { called[i] : i \in 1 .. Len(called) }
       IN  /\ whenReadyCallbacks' =
                SubSeq(whenReadyCallbacks, 1, Len(whenReadyCallbacks) - Len(called))
           /\ promises' = [p \in PromiseIds |->
                IF p \in calledSet
                THEN [promises[p] EXCEPT !.state = "resolved", !.resolveCalls = @ + 1]
                ELSE promises[p]]
           /\ microtasks' = SelectSeq(called, LAMBDA p : promises[p].reaction # 0
                                                          /\ promises[p].state = "pending")
    /\ messages' = sendAll(messages,
                           { m \in MessageIds : messages[m].state = "opening" },
                           "READY", winAlive)
    /\ setReadyTick' = ~setReadyTick
    /\ UNCHANGED <<winAlive, notProxy>>

\* the next queued promise reaction runs
RunMicrotask ==
    /\ microtasks # << >>
    /\ messages' = sendWhenReadyReaction(messages, promises[Head(microtasks)].reaction,
                                         readyState, winAlive)
    /\ microtasks' = Tail(microtasks)
    /\ UNCHANGED <<readyState, winAlive, whenReadyCallbacks, promises, setReadyTick,
                   notProxy>>

\* the browser window's 'closed' event: onDidClose fires and the window is disposed
WindowClosed ==
    /\ microtasks = << >>
    /\ winAlive
    /\ winAlive' = FALSE
    /\ UNCHANGED <<readyState, whenReadyCallbacks, promises, messages, microtasks,
                   setReadyTick, notProxy>>

ProxyNext ==
    \/ Load
    \/ Ready
    \/ SendWhenReady
    \/ SendToOpeningWindow
    \/ CancelToken
    \/ SetReady
    \/ RunMicrotask
    \/ WindowClosed


(***************************************************************************)
(* WindowsMainService: the windows map, open(), the window's close/destroy *)
(***************************************************************************)

MaxWindows == 3

WindowIds == 1 .. MaxWindows

NoWindow ==
    [ state           |-> "none",   \* none / open / destroying / closed
      closeListener   |-> FALSE,    \* Event.once(onDidClose) listener is attached
      destroyListener |-> FALSE ]   \* Event.once(onDidDestroy) listener is attached

\* the ids electron has handed out
usedIds == { w \in WindowIds : createdWindows[w].state # "none" }

\* getWindows()
getWindows(map) == { map[id] : id \in DOMAIN map }

\* getWindowCount()
getWindowCount(map) == Cardinality(DOMAIN map)

\* getWindowById(windowId)
getWindowById(map, windowId) == IF windowId \in DOMAIN map THEN map[windowId] ELSE 0

\* getLastFocused(windows): the window with the greatest lastFocusTime, 0 for undefined
getLastFocused(ws, order) ==
    LET idx == { i \in 1 .. Len(order) : order[i] \in ws }
    IN  IF idx = {} THEN 0
        ELSE order[CHOOSE i \in idx : \A j \in idx : j <= i]

\* this.windows.set(id, window)
mapSet(map, id, w) == [k \in DOMAIN map \cup {id} |-> IF k = id THEN w ELSE map[k]]

\* this.windows.delete(id)
mapDelete(map, id) == [k \in DOMAIN map \ {id} |-> map[k]]

\* disposables.dispose(): the service's listeners on the window are removed
disposeListeners(win) == [win EXCEPT !.closeListener = FALSE, !.destroyListener = FALSE]

onWindowDestroyedKeeps(map, w) == map
\* onWindowDestroyed(window)
onWindowDestroyed(map, w) == mapDelete(map, w)

\* onWindowClosed(window, disposables): what it does to the map
onWindowClosed(map, w) == mapDelete(map, w)

\* openInBrowserWindow(options): the window it uses, 0 when a new one is created
windowToReuse(map, order, forceNewWindow) ==
    IF ~forceNewWindow THEN getLastFocused(getWindows(map), order) ELSE 0

\* open(openConfig) always passes forceNewWindow: true to openInBrowserWindow
openForceNewWindow(forceNewWindow) == TRUE

\* no openEmptyWindow call is the last call
NoOpen == [called |-> FALSE, forceReuseWindow |-> FALSE, existing |-> {}, created |-> {}]

ServiceIdle ==
    /\ windows = << >>
    /\ createdWindows = [w \in WindowIds |-> NoWindow]
    /\ focusOrder = << >>
    /\ didClose = {}
    /\ didDestroy = {}
    /\ lastOpen = NoOpen

ServiceInit == ServiceIdle

\* openEmptyWindow(openConfig, options) -> open -> openInBrowserWindow
OpenEmptyWindow ==
    \E forceReuseWindow \in BOOLEAN :
        LET forceNewWindow == openForceNewWindow(~forceReuseWindow)
            window == windowToReuse(windows, focusOrder, forceNewWindow)
        IN  IF window = 0
            THEN \E id \in WindowIds \ usedIds :
                   /\ id = CHOOSE x \in WindowIds \ usedIds :
                                \A y \in WindowIds \ usedIds : x <= y
                   /\ createdWindows' = [createdWindows EXCEPT
                                           ![id] = [state |-> "open",
                                                    closeListener |-> TRUE,
                                                    destroyListener |-> TRUE]]
                   /\ windows' = mapSet(windows, id, id)
                   /\ focusOrder' = Append(focusOrder, id)
                   /\ lastOpen' = [called |-> TRUE, forceReuseWindow |-> forceReuseWindow,
                                   existing |-> getWindows(windows), created |-> {id}]
                   /\ UNCHANGED <<didClose, didDestroy, notService>>
            ELSE /\ focusOrder' = Append(SelectSeq(focusOrder, LAMBDA x : x # window),
                                         window)
                 /\ lastOpen' = [called |-> TRUE, forceReuseWindow |-> forceReuseWindow,
                                 existing |-> getWindows(windows), created |-> {}]
                 /\ UNCHANGED <<windows, createdWindows, didClose, didDestroy, notService>>

\* the browser window's 'focus' event
WindowFocus ==
    \E w \in WindowIds :
        /\ createdWindows[w].state = "open"
        /\ focusOrder[Len(focusOrder)] # w
        /\ focusOrder' = Append(SelectSeq(focusOrder, LAMBDA x : x # w), w)
        /\ lastOpen' = NoOpen
        /\ UNCHANGED <<windows, createdWindows, didClose, didDestroy, notService>>

\* the browser window's 'closed' event: onDidClose fires, its once-listener runs
\* onWindowClosed and disposes the service's listeners, then the window is disposed
BrowserWindowClosed(w) ==
    /\ didClose' = didClose \cup {w}
    /\ windows' = IF createdWindows[w].closeListener
                  THEN onWindowClosed(windows, w) ELSE windows
    /\ createdWindows' = [createdWindows EXCEPT
                            ![w] = [disposeListeners(@) EXCEPT !.state = "closed"]]
    /\ lastOpen' = NoOpen
    /\ UNCHANGED <<focusOrder, didDestroy, notService>>

\* the user closes the window
CloseWindow ==
    \E w \in WindowIds :
        /\ createdWindows[w].state = "open"
        /\ BrowserWindowClosed(w)

\* destroyWindow(false, false) up to its finally block: onDidDestroy fires and
\* its once-listener runs onWindowDestroyed
DestroyWindow ==
    \E w \in WindowIds :
        /\ createdWindows[w].state = "open"
        /\ didDestroy' = didDestroy \cup {w}
        /\ windows' = IF createdWindows[w].destroyListener
                      THEN onWindowDestroyed(windows, w) ELSE windows
        /\ createdWindows' = [createdWindows EXCEPT ![w].state = "destroying",
                                                    ![w].destroyListener = FALSE]
        /\ lastOpen' = NoOpen
        /\ UNCHANGED <<focusOrder, didClose, notService>>

\* destroyWindow's finally block: this._win.destroy() emits 'closed'
DestroyWindowFinally ==
    \E w \in WindowIds :
        /\ createdWindows[w].state = "destroying"
        /\ BrowserWindowClosed(w)

ServiceNext ==
    \/ OpenEmptyWindow
    \/ WindowFocus
    \/ CloseWindow
    \/ DestroyWindow
    \/ DestroyWindowFinally


(***************************************************************************)
(* dialogs: massageMessageBoxOptions                                       *)
(***************************************************************************)

MaxButtons == 3

\* isLinux, isMacintosh, isWindows: at most one holds
Platforms == {"linux", "mac", "windows", "other"}

\* button labels as strings of characters: "&&Yes", "No", "Cancel(&&C)", "R&D"
Labels ==
    { <<"&", "&", "Y">>, <<"N">>, <<"C", "(", "&", "&", "C", ")">>, <<"R", "&", "D">> }

WordChars == {"Y", "N", "C", "R", "D"}

RECURSIVE replaceMac(_)
\* label.replace(/\(&&\w\)|&&/g, '')
replaceMac(l) ==
    IF l = << >> THEN << >>
    ELSE IF /\ Len(l) >= 5
            /\ l[1] = "(" /\ l[2] = "&" /\ l[3] = "&" /\ l[4] \in WordChars /\ l[5] = ")"
         THEN replaceMac(SubSeq(l, 6, Len(l)))
    ELSE IF Len(l) >= 2 /\ l[1] = "&" /\ l[2] = "&"
         THEN replaceMac(SubSeq(l, 3, Len(l)))
    ELSE <<l[1]>> \o replaceMac(Tail(l))

RECURSIVE replaceWindows(_)
\* label.replace(/&&|&/g, m => m === '&' ? '&&' : '&')
replaceWindows(l) ==
    IF l = << >> THEN << >>
    ELSE IF Len(l) >= 2 /\ l[1] = "&" /\ l[2] = "&"
         THEN <<"&">> \o replaceWindows(SubSeq(l, 3, Len(l)))
    ELSE IF l[1] = "&"
         THEN <<"&", "&">> \o replaceWindows(Tail(l))
    ELSE <<l[1]>> \o replaceWindows(Tail(l))

RECURSIVE replaceOther(_)
\* label.replace(/&&/g, '_')
replaceOther(l) ==
    IF l = << >> THEN << >>
    ELSE IF Len(l) >= 2 /\ l[1] = "&" /\ l[2] = "&"
         THEN <<"_">> \o replaceOther(SubSeq(l, 3, Len(l)))
    ELSE <<l[1]>> \o replaceOther(Tail(l))

\* mnemonicButtonLabel(label) of base/common/labels
mnemonicButtonLabel(label, platform) ==
    CASE platform = "mac" -> replaceMac(label)
      [] platform = "windows" -> replaceWindows(label)
      [] OTHER -> replaceOther(label)

\* array.splice(index, 1) and array.splice(index, 0, item), index counted from 0
spliceRemove(a, index) == SubSeq(a, 1, index) \o SubSeq(a, index + 2, Len(a))
spliceInsert(a, index, item) == SubSeq(a, 1, index) \o <<item>> \o SubSeq(a, index + 1, Len(a))

\* array.reverse()
reverse(a) == [i \in 1 .. Len(a) |-> a[Len(a) + 1 - i]]

\* buttons.splice(cancelId, 1); buttons.splice(to, 0, cancelButton)
\* (to = buttons.length - 1 for the push on Windows)
moveButton(buttons, cancelId, to) ==
    spliceInsert(spliceRemove(buttons, cancelId), to, buttons[cancelId + 1])

moveButtonIndexKeeps(buttonIndeces, cancelId, to) == buttonIndeces
\* the same two splices on buttonIndeces
moveButtonIndex(buttonIndeces, cancelId, to) ==
    spliceInsert(spliceRemove(buttonIndeces, cancelId), to, buttonIndeces[cancelId + 1])

linuxCancelIdStale(defaultId) == 1
\* Linux, after the reverse: cancelId = defaultId - 1
linuxCancelId(defaultId) == defaultId - 1

massageMessageBoxOptions(options) ==
    LET isLinux == options.platform = "linux"
        isMacintosh == options.platform = "mac"
        isWindows == options.platform = "windows"
        given == options.buttons
        buttons0 == [i \in 1 .. Len(given) |-> mnemonicButtonLabel(given[i], options.platform)]
        indeces0 == [i \in 1 .. Len(given) |-> i - 1]
        n == Len(buttons0)
        cancelId0 == IF options.cancelId.defined THEN options.cancelId.value ELSE n - 1
        \* typeof cancelButton === 'string'
        cancelIsButton == cancelId0 \in 0 .. n - 1
        toSecond == n > 1 /\ (isLinux \/ isMacintosh) /\ cancelIsButton /\ cancelId0 # 1
        toLast == /\ n > 1 /\ ~(isLinux \/ isMacintosh) /\ isWindows
                  /\ cancelIsButton /\ cancelId0 # n - 1
        buttons1 == IF toSecond THEN moveButton(buttons0, cancelId0, 1)
                    ELSE IF toLast THEN moveButton(buttons0, cancelId0, n - 1)
                    ELSE buttons0
        indeces1 == IF toSecond THEN moveButtonIndex(indeces0, cancelId0, 1)
                    ELSE IF toLast THEN moveButtonIndex(indeces0, cancelId0, n - 1)
                    ELSE indeces0
        cancelId1 == IF toSecond THEN 1 ELSE IF toLast THEN n - 1 ELSE cancelId0
        reversed == n > 1 /\ isLinux
        defaultId == IF reversed THEN n - 1 ELSE 0
    IN  [ done          |-> TRUE,
          buttons       |-> IF reversed THEN reverse(buttons1) ELSE buttons1,
          buttonIndeces |-> IF reversed THEN reverse(indeces1) ELSE indeces1,
          defaultId     |-> defaultId,
          cancelId      |-> IF reversed /\ cancelIsButton THEN linuxCancelId(defaultId)
                            ELSE cancelId1 ]

ButtonLists == UNION { [1 .. k -> Labels] : k \in 0 .. MaxButtons }

\* cancelId: undefined, or a number, also one that names no button
CancelIds ==
    {[defined |-> FALSE, value |-> 0]}
        \cup { [defined |-> TRUE, value |-> v] : v \in -1 .. MaxButtons }

NoDialogResult ==
    [done |-> FALSE, buttons |-> << >>, buttonIndeces |-> << >>, defaultId |-> 0, cancelId |-> 0]

DialogIdle ==
    /\ dialogOptions = [buttons |-> << >>, cancelId |-> [defined |-> FALSE, value |-> 0],
                        platform |-> "other"]
    /\ dialogResult = NoDialogResult

DialogInit ==
    /\ dialogOptions \in [buttons : ButtonLists, cancelId : CancelIds, platform : Platforms]
    /\ dialogResult = NoDialogResult

MassageMessageBoxOptions ==
    /\ ~dialogResult.done
    /\ dialogResult' = massageMessageBoxOptions(dialogOptions)
    /\ UNCHANGED <<dialogOptions, notDialog>>

DialogNext == MassageMessageBoxOptions


(***************************************************************************)
(* WindowStateValidator.validateWindowState, the single display case       *)
(***************************************************************************)

GridStep == 64
MaxGrid == 3

\* "some pixels (128) visible on the screen for the user to drag it back"
VisibleMargin == 128

\* positions on and next to the grid, also left of and above the screen
Coordinates == { k * GridStep + j : k \in -1 .. MaxGrid, j \in {0, 1} }

\* widths and heights of a window state, 0 for a state that is rejected
Extents == { k * GridStep : k \in 0 .. MaxGrid }

\* widths and heights of a display area
AreaExtents == { k * GridStep : k \in 1 .. MaxGrid }

Rectangles == [x : {0, GridStep}, y : {0, GridStep}, width : AreaExtents, height : AreaExtents]

\* a display with a work area inside its bounds, one whose work area has no
\* size (as X11 sessions report), and one without any usable area
Displays ==
    { [workArea |-> r,
       bounds |-> [x |-> 0, y |-> 0, width |-> r.x + r.width, height |-> r.y + r.height]]
         : r \in Rectangles }
    \cup { [workArea |-> [r EXCEPT !.width = 0, !.height = 0], bounds |-> r]
             : r \in Rectangles }
    \cup { [workArea |-> [x |-> 0, y |-> 0, width |-> 0, height |-> 0],
            bounds |-> [x |-> 0, y |-> 0, width |-> 0, height |-> 0]] }

NoRectangle == [defined |-> FALSE, x |-> 0, y |-> 0, width |-> 0, height |-> 0]

defined(r) == [defined |-> TRUE, x |-> r.x, y |-> r.y, width |-> r.width, height |-> r.height]

\* getWorkingArea(display)
getWorkingArea(d) ==
    IF d.workArea.width > 0 /\ d.workArea.height > 0 THEN defined(d.workArea)
    ELSE IF d.bounds.width > 0 /\ d.bounds.height > 0 THEN defined(d.bounds)
    ELSE NoRectangle

\* ensureStateInDisplayWorkingArea()
ensureStateInDisplayWorkingArea(state, area) ==
    [state EXCEPT !.x = IF @ < area.x THEN area.x ELSE @,
                  !.y = IF @ < area.y THEN area.y ELSE @]

keepExtent(extent, areaExtent) == extent
\* if (state.width > displayWorkingArea.width) state.width = displayWorkingArea.width
\* and the same for the height
limitExtent(extent, areaExtent) == IF extent > areaExtent THEN areaExtent ELSE extent

keepPosition(position, extent, areaStart, areaExtent) == position
\* if (state.x > area.x + area.width - 128) state.x = area.x + area.width - state.width
\* and the same for y
pullIntoArea(position, extent, areaStart, areaExtent) ==
    IF position > areaStart + areaExtent - VisibleMargin
    THEN areaStart + areaExtent - extent
    ELSE position

\* validateWindowState(logService, state, displays) with displays.length === 1
validateWindowState(state, d) ==
    IF state.width <= 0 \/ state.height <= 0 THEN NoRectangle
    ELSE LET area == getWorkingArea(d)
         IN  IF ~area.defined THEN defined(state)
             ELSE LET s1 == ensureStateInDisplayWorkingArea(state, area)
                      s2 == [s1 EXCEPT !.width = limitExtent(@, area.width),
                                       !.height = limitExtent(@, area.height)]
                      s3 == [s2 EXCEPT !.x = pullIntoArea(@, s2.width, area.x, area.width)]
                      s4 == [s3 EXCEPT !.y = pullIntoArea(@, s3.height, area.y, area.height)]
                  IN  defined(ensureStateInDisplayWorkingArea(s4, area))

ValidatorIdle ==
    /\ windowState = [x |-> 0, y |-> 0, width |-> 0, height |-> 0]
    /\ display = [workArea |-> [x |-> 0, y |-> 0, width |-> 0, height |-> 0],
                  bounds |-> [x |-> 0, y |-> 0, width |-> 0, height |-> 0]]
    /\ validated = [done |-> FALSE, state |-> NoRectangle]

ValidatorInit ==
    /\ windowState \in [x : Coordinates, y : Coordinates, width : Extents, height : Extents]
    /\ display \in Displays
    /\ validated = [done |-> FALSE, state |-> NoRectangle]

ValidateWindowState ==
    /\ ~validated.done
    /\ validated' = [done |-> TRUE, state |-> validateWindowState(windowState, display)]
    /\ UNCHANGED <<windowState, display, notValidator>>

ValidatorNext == ValidateWindowState


(***************************************************************************)
(* Layout.createGridDescriptor: the middle section of the serialized grid  *)
(***************************************************************************)

SizeUnit == 100
MaxPartUnits == 2
ContainerUnits == 10
SectionHeightUnits == 6

\* ActivitybarPart.minimumWidth
activityBarWidth == 0

\* the stored or default sizes of side bar, auxiliary bar and panel
PartSizes == { k * SizeUnit : k \in 0 .. MaxPartUnits }

\* what createGridDescriptor reads
GridStates ==
    [ width               : {ContainerUnits * SizeUnit},
      middleSectionHeight : {SectionHeightUnits * SizeUnit},
      SIDEBAR_SIZE        : PartSizes,
      AUXILIARYBAR_SIZE   : PartSizes,
      PANEL_SIZE          : PartSizes,
      ACTIVITYBAR_HIDDEN  : BOOLEAN,
      SIDEBAR_HIDDEN      : BOOLEAN,
      AUXILIARYBAR_HIDDEN : BOOLEAN,
      EDITOR_HIDDEN       : BOOLEAN,
      PANEL_HIDDEN        : BOOLEAN,
      PANEL_POSITION      : Positions,
      SIDEBAR_POSITON     : {"LEFT", "RIGHT"},
      PANEL_ALIGNMENT     : PanelAlignments ]

\* ISerializedLeafNode and ISerializedBranchNode
leafNode(part, size, visible) ==
    [type |-> "leaf", part |-> part, size |-> size, visible |-> visible, data |-> << >>]
branchNode(data, size) ==
    [type |-> "branch", part |-> "none", size |-> size, visible |-> TRUE, data |-> data]

\* a number used as a condition
truthy(n) == n # 0

\* the nodes createGridDescriptor hands to arrangeMiddleSectionNodes
gridNodes(g) ==
    [ activityBar  |-> leafNode("ACTIVITYBAR_PART", activityBarWidth, ~g.ACTIVITYBAR_HIDDEN),
      sideBar      |-> leafNode("SIDEBAR_PART", g.SIDEBAR_SIZE, ~g.SIDEBAR_HIDDEN),
      auxiliaryBar |-> leafNode("AUXILIARYBAR_PART", g.AUXILIARYBAR_SIZE,
                                ~g.AUXILIARYBAR_HIDDEN),
      editor       |-> leafNode("EDITOR_PART", 0, ~g.EDITOR_HIDDEN),
      panel        |-> leafNode("PANEL_PART", g.PANEL_SIZE, ~g.PANEL_HIDDEN) ]

\* arrangeEditorNodes(nodes, availableHeight, availableWidth); sideBar and
\* auxiliaryBar are given when they sit next to the editor
arrangeEditorNodes(g, nodes, withSideBar, withAuxiliaryBar, availableHeight, availableWidth) ==
    IF ~withSideBar /\ ~withAuxiliaryBar
    THEN [nodes.editor EXCEPT !.size = availableHeight]
    ELSE LET sideBarSize == IF withSideBar /\ ~g.SIDEBAR_HIDDEN THEN nodes.sideBar.size ELSE 0
             auxSize == IF withAuxiliaryBar /\ ~g.AUXILIARYBAR_HIDDEN
                        THEN nodes.auxiliaryBar.size ELSE 0
             editor == [nodes.editor EXCEPT !.size = availableWidth - sideBarSize - auxSize]
             r1 == IF ~withSideBar THEN <<editor>>
                   ELSE IF g.SIDEBAR_POSITON = "LEFT" THEN <<nodes.sideBar, editor>>
                   ELSE <<editor, nodes.sideBar>>
             r2 == IF ~withAuxiliaryBar THEN r1
                   ELSE IF g.SIDEBAR_POSITON = "RIGHT" THEN <<nodes.auxiliaryBar>> \o r1
                   ELSE Append(r1, nodes.auxiliaryBar)
         IN  branchNode(r2, availableHeight)

\* const panelSize = getInitializationValue(PANEL_SIZE) ? 0 : nodes.panel.size
middleSectionPanelSize(g, nodes) == IF truthy(g.PANEL_SIZE) THEN 0 ELSE nodes.panel.size

\* arrangeMiddleSectionNodes(nodes, availableWidth, availableHeight)
arrangeMiddleSectionNodes(g, nodes, availableWidth, availableHeight) ==
    LET activityBarSize == IF g.ACTIVITYBAR_HIDDEN THEN 0 ELSE nodes.activityBar.size
        sideBarSize == IF g.SIDEBAR_HIDDEN THEN 0 ELSE nodes.sideBar.size
        auxiliaryBarSize == IF g.AUXILIARYBAR_HIDDEN THEN 0 ELSE nodes.auxiliaryBar.size
        panelSize == middleSectionPanelSize(g, nodes)
        panelPostion == g.PANEL_POSITION
        sideBarPosition == g.SIDEBAR_POSITON
    IN  IF ~isHorizontal(panelPostion)
        THEN LET editor == [nodes.editor EXCEPT
                              !.size = availableWidth - activityBarSize - sideBarSize
                                         - panelSize - auxiliaryBarSize]
                 r1 == IF panelPostion = "RIGHT" THEN <<editor, nodes.panel>>
                       ELSE <<nodes.panel, editor>>
             IN  IF sideBarPosition = "LEFT"
                 THEN <<nodes.activityBar, nodes.sideBar>> \o r1 \o <<nodes.auxiliaryBar>>
                 ELSE <<nodes.auxiliaryBar>> \o r1 \o <<nodes.sideBar, nodes.activityBar>>
        ELSE LET panelAlignment == g.PANEL_ALIGNMENT
                 sideBarNextToEditor ==
                     ~(\/ panelAlignment = "center"
                       \/ (sideBarPosition = "LEFT" /\ panelAlignment = "right")
                       \/ (sideBarPosition = "RIGHT" /\ panelAlignment = "left"))
                 auxiliaryBarNextToEditor ==
                     ~(\/ panelAlignment = "center"
                       \/ (sideBarPosition = "RIGHT" /\ panelAlignment = "right")
                       \/ (sideBarPosition = "LEFT" /\ panelAlignment = "left"))
                 editorSectionWidth ==
                     availableWidth - activityBarSize
                       - (IF sideBarNextToEditor THEN 0 ELSE sideBarSize)
                       - (IF auxiliaryBarNextToEditor THEN 0 ELSE auxiliaryBarSize)
                 editorNodes ==
                     arrangeEditorNodes(g, nodes, sideBarNextToEditor, auxiliaryBarNextToEditor,
                                        availableHeight - panelSize, editorSectionWidth)
                 r1 == << branchNode(IF panelPostion = "BOTTOM"
                                     THEN <<editorNodes, nodes.panel>>
                                     ELSE <<nodes.panel, editorNodes>>,
                                     editorSectionWidth) >>
                 r2 == IF sideBarNextToEditor THEN r1
                       ELSE IF sideBarPosition = "LEFT" THEN <<nodes.sideBar>> \o r1
                       ELSE Append(r1, nodes.sideBar)
                 r3 == IF auxiliaryBarNextToEditor THEN r2
                       ELSE IF sideBarPosition = "RIGHT" THEN <<nodes.auxiliaryBar>> \o r2
                       ELSE Append(r2, nodes.auxiliaryBar)
             IN  IF sideBarPosition = "LEFT" THEN <<nodes.activityBar>> \o r3
                 ELSE Append(r3, nodes.activityBar)

\* createGridDescriptor(): the data of the middle section branch
createGridDescriptor(g) ==
    arrangeMiddleSectionNodes(g, gridNodes(g), g.width, g.middleSectionHeight)

GridIdle ==
    /\ gridState = [ width |-> ContainerUnits * SizeUnit,
                     middleSectionHeight |-> SectionHeightUnits * SizeUnit,
                     SIDEBAR_SIZE |-> 0, AUXILIARYBAR_SIZE |-> 0, PANEL_SIZE |-> 0,
                     ACTIVITYBAR_HIDDEN |-> FALSE, SIDEBAR_HIDDEN |-> FALSE,
                     AUXILIARYBAR_HIDDEN |-> TRUE, EDITOR_HIDDEN |-> FALSE,
                     PANEL_HIDDEN |-> TRUE, PANEL_POSITION |-> "BOTTOM",
                     SIDEBAR_POSITON |-> "LEFT", PANEL_ALIGNMENT |-> "center" ]
    /\ gridDescriptor = [done |-> FALSE, middleSection |-> << >>]

\* LayoutStateModel.load: the values come from storage or the defaults
GridInit ==
    /\ gridState \in GridStates
    /\ gridDescriptor = [done |-> FALSE, middleSection |-> << >>]

CreateGridDescriptor ==
    /\ ~gridDescriptor.done
    /\ gridDescriptor' = [done |-> TRUE, middleSection |-> createGridDescriptor(gridState)]
    /\ UNCHANGED <<gridState, notGrid>>

GridNext == CreateGridDescriptor

Init ==
    /\ LayoutInit /\ TimeoutIdle /\ ProxyIdle /\ ServiceIdle /\ DialogIdle /\ ValidatorIdle
    /\ GridIdle

Spec == Init /\ [][LayoutNext]_vars

InitTimeout ==
    /\ TimeoutInit /\ LayoutIdle /\ ProxyIdle /\ ServiceIdle /\ DialogIdle /\ ValidatorIdle
    /\ GridIdle

SpecTimeout == InitTimeout /\ [][TimeoutNext]_vars

InitProxyWindow ==
    /\ ProxyInit /\ LayoutIdle /\ TimeoutIdle /\ ServiceIdle /\ DialogIdle /\ ValidatorIdle
    /\ GridIdle

SpecProxyWindow == InitProxyWindow /\ [][ProxyNext]_vars

InitWindowsMainService ==
    /\ ServiceInit /\ LayoutIdle /\ TimeoutIdle /\ ProxyIdle /\ DialogIdle /\ ValidatorIdle
    /\ GridIdle

SpecWindowsMainService == InitWindowsMainService /\ [][ServiceNext]_vars

InitDialogs ==
    /\ DialogInit /\ LayoutIdle /\ TimeoutIdle /\ ProxyIdle /\ ServiceIdle /\ ValidatorIdle
    /\ GridIdle

SpecDialogs == InitDialogs /\ [][DialogNext]_vars

InitValidator ==
    /\ ValidatorInit /\ LayoutIdle /\ TimeoutIdle /\ ProxyIdle /\ ServiceIdle /\ DialogIdle
    /\ GridIdle

SpecValidator == InitValidator /\ [][ValidatorNext]_vars

InitGrid ==
    /\ GridInit /\ LayoutIdle /\ TimeoutIdle /\ ProxyIdle /\ ServiceIdle /\ DialogIdle
    /\ ValidatorIdle

SpecGrid == InitGrid /\ [][GridNext]_vars

\* C1: after any sequence of setPartHidden and toggleMaximizedPanel calls on a
\* layout whose grid exists, the editor part and the panel part are never both
\* hidden, whatever the panel position and alignment.
C1_EditorAndPanelNeverBothHidden ==
    c1Scope => ~(layout.EDITOR_HIDDEN /\ layout.PANEL_HIDDEN)

\* C2: with more than one window open, a function handler scheduled with a
\* non-zero delay through the patched setTimeout is invoked at most once,
\* although a native timer is armed in every eligible window and several fire.
C2_HandlerInvokedAtMostOnce ==
    \A h \in Handles : timers[h].kind = "multi" => timers[h].invoked <= 1

\* two native timers of one multi-window timeout have fired, one call was made
C2_Witness ==
    \E h \in Handles :
        /\ timers[h].kind = "multi"
        /\ Cardinality({w \in Wins : timers[h].native[w] = "fired"}) >= 2
        /\ timers[h].invoked = 1

\* C3: once the patched clearTimeout was called with a handle of the
\* multi-window setTimeout, the handler is not invoked any more, even when a
\* native timer the browser failed to cancel still fires.
C3_NoInvocationAfterClear ==
    [][\A h \in Handles :
          (timers[h].kind = "multi" /\ timers[h].cleared)
              => timers'[h].invoked = timers[h].invoked]_vars

\* a timer fired after clearTimeout, and the handler was never called
C3_Witness ==
    \E h \in Handles :
        /\ timers[h].kind = "multi"
        /\ timers[h].cleared
        /\ timers[h].lateFire
        /\ timers[h].invoked = 0

\* C4: every promise ready() returned while the window was not READY is
\* resolved by the next setReady(), exactly once, and when setReady() returns
\* no ready-callback remains queued.
C4_SetReadyResolvesAllWaiting ==
    [][/\ \A p \in PromiseIds : promises'[p].resolveCalls <= 1
       /\ setReadyTick' # setReadyTick =>
             /\ whenReadyCallbacks' = << >>
             /\ \A p \in PromiseIds :
                   (promises[p].queued /\ promises[p].state = "pending")
                       => /\ promises'[p].state = "resolved"
                          /\ promises'[p].resolveCalls = 1]_vars

\* setReady() has resolved two promises that waited
C4_Witness ==
    /\ readyState = "READY"
    /\ whenReadyCallbacks = << >>
    /\ \E p, q \in PromiseIds :
          /\ p # q
          /\ promises[p].queued /\ promises[p].state = "resolved"
          /\ promises[q].queued /\ promises[q].state = "resolved"

\* C5: a message given to sendWhenReady reaches the web contents only while
\* readyState is READY (also when load() runs again around setReady()), and a
\* message queued while not ready is not sent when its token was cancelled
\* before the window became ready.
C5_SentOnlyWhenReady ==
    \A m \in MessageIds :
        /\ messages[m].state = "sent" => messages[m].sentIn = "READY"
        /\ messages[m].cancelledBeforeReady => messages[m].state # "sent"

\* a message that waited was sent after a second load() and setReady(), and
\* another one whose token was cancelled while it waited was dropped
C5_Witness ==
    \E m, n \in MessageIds :
        /\ messages[m].state = "sent" /\ messages[m].token # "cancelled"
        /\ \E p \in PromiseIds : promises[p].reaction = m
        /\ messages[n].state = "dropped" /\ messages[n].cancelledBeforeReady

\* the windows created by open() for which neither onDidClose nor onDidDestroy
\* has fired
liveWindows == { w \in WindowIds : createdWindows[w].state # "none" } \ (didClose \cup didDestroy)

\* C6: getWindows() holds exactly the windows open() created for which neither
\* onDidClose nor onDidDestroy has fired; getWindowCount() is their number
\* and getWindowById gives undefined for every other id.
C6_RegistryHoldsLiveWindows ==
    /\ getWindows(windows) = liveWindows
    /\ getWindowCount(windows) = Cardinality(liveWindows)
    /\ \A id \in 0 .. MaxWindows + 1 :
          getWindowById(windows, id) = IF id \in liveWindows THEN id ELSE 0

\* one window is registered, one was closed, one was destroyed and not yet closed
C6_Witness ==
    \E a, b, c \in WindowIds :
        /\ createdWindows[a].state = "open" /\ a \in DOMAIN windows
        /\ b \in didClose \ didDestroy
        /\ c \in didDestroy \ didClose

\* the number of buttons the caller gave
givenButtons == Len(dialogOptions.buttons)

\* C7: buttonIndeces is a permutation of 0..n-1 and the massaged button at
\* position i is the (mnemonic label of the) original button at index
\* buttonIndeces[i], on every platform and for every cancelId.
C7_ButtonIndecesIsPermutation ==
    dialogResult.done =>
        /\ Len(dialogResult.buttonIndeces) = givenButtons
        /\ Len(dialogResult.buttons) = givenButtons
        /\ { dialogResult.buttonIndeces[i] : i \in 1 .. givenButtons } = 0 .. givenButtons - 1
        /\ \A i \in 1 .. givenButtons :
              dialogResult.buttons[i] =
                  mnemonicButtonLabel(dialogOptions.buttons[dialogResult.buttonIndeces[i] + 1],
                                      dialogOptions.platform)

\* three different buttons were reordered
C7_Witness ==
    /\ dialogResult.done
    /\ givenButtons = 3
    /\ Cardinality({ dialogOptions.buttons[i] : i \in 1 .. 3 }) = 3
    /\ dialogResult.buttonIndeces # <<0, 1, 2>>
    /\ dialogResult.buttons[1] # dialogOptions.buttons[dialogResult.buttonIndeces[1] + 1]

\* the index of the cancel button the caller means, when it names a button
givenCancelId ==
    IF dialogOptions.cancelId.defined THEN dialogOptions.cancelId.value
    ELSE givenButtons - 1

\* C8: with more than one button and a cancelId that names a button, the
\* massaged cancelId points at that same button, which sits at index 1 on
\* macOS, second-to-last on Linux with the default button last, and last on
\* Windows.
C8_CancelButtonPlacement ==
    (dialogResult.done /\ givenButtons > 1 /\ givenCancelId \in 0 .. givenButtons - 1) =>
        /\ dialogResult.cancelId \in 0 .. givenButtons - 1
        /\ dialogResult.buttonIndeces[dialogResult.cancelId + 1] = givenCancelId
        /\ dialogOptions.platform = "mac" => dialogResult.cancelId = 1
        /\ dialogOptions.platform = "linux" =>
              /\ dialogResult.cancelId = givenButtons - 2
              /\ dialogResult.defaultId = givenButtons - 1
        /\ dialogOptions.platform = "windows" => dialogResult.cancelId = givenButtons - 1

\* on Linux the first of two buttons was the cancel button
C8_Witness ==
    /\ dialogResult.done
    /\ dialogOptions.platform = "linux"
    /\ givenButtons = 2
    /\ givenCancelId = 0
    /\ dialogResult.cancelId = 0

\* the display reports a usable working area
usableWorkArea == display.workArea.width > 0 /\ display.workArea.height > 0

\* C9: with one display that reports a usable working area, a state with
\* positive width and height is returned with x >= workArea.x,
\* y >= workArea.y, width <= workArea.width and height <= workArea.height.
C9_StateWithinWorkArea ==
    (validated.done /\ usableWorkArea /\ windowState.width > 0 /\ windowState.height > 0) =>
        /\ validated.state.defined
        /\ validated.state.x >= display.workArea.x
        /\ validated.state.y >= display.workArea.y
        /\ validated.state.width <= display.workArea.width
        /\ validated.state.height <= display.workArea.height

\* a state left of the work area and wider than it was moved and narrowed
C9_Witness ==
    /\ validated.done /\ usableWorkArea
    /\ windowState.x < display.workArea.x
    /\ windowState.width > display.workArea.width
    /\ windowState.height > 0
    /\ validated.state.x = display.workArea.x
    /\ validated.state.width = display.workArea.width

C11_ForceReuseWindowCreatesNone ==
    (lastOpen.called /\ lastOpen.forceReuseWindow /\ lastOpen.existing # {}) =>
        /\ lastOpen.created = {}
        /\ getWindows(windows) = lastOpen.existing

\* C12: setPartHidden(hidden, part) for the activity bar, the banner or the
\* auxiliary bar leaves the hidden state of the side bar and of the panel as
\* it was.
C12_OtherPartsKeepSideBarAndPanel ==
    [][(/\ lastCall'.op = "setPartHidden"
        /\ lastCall'.part \in {"ACTIVITYBAR_PART", "BANNER_PART", "AUXILIARYBAR_PART"})
          => /\ layout'.SIDEBAR_HIDDEN = layout.SIDEBAR_HIDDEN
             /\ layout'.PANEL_HIDDEN = layout.PANEL_HIDDEN]_vars

RECURSIVE visibleWidthBesideEditor(_)
\* the sizes of the visible nodes of a node list, the editor node left out
visibleWidthBesideEditor(ns) ==
    IF ns = << >> THEN 0
    ELSE (IF Head(ns).visible /\ Head(ns).part # "EDITOR_PART" THEN Head(ns).size ELSE 0)
           + visibleWidthBesideEditor(Tail(ns))

\* C13: for a vertical panel position the editor node gets the container width
\* less the sizes of the visible ones of activity bar, side bar, panel and
\* auxiliary bar, so that editor and visible nodes add up to the container
\* width.
C13_EditorWidthIsRemainder ==
    (gridDescriptor.done /\ ~isHorizontal(gridState.PANEL_POSITION)) =>
        \A i \in 1 .. Len(gridDescriptor.middleSection) :
            gridDescriptor.middleSection[i].part = "EDITOR_PART" =>
                gridDescriptor.middleSection[i].size
                    = gridState.width - visibleWidthBesideEditor(gridDescriptor.middleSection)

====
